---- MODULE Spec2Model ----
(***************************************************************************)
(* Model of bioscrape/pid_interfaces.py: the parameter-identification      *)
(* interface (PIDInterface.check_prior / uniform_prior / gaussian_prior)   *)
(* and the two get_likelihood_function bodies (StochasticInference and     *)
(* DeterministicInference), which the design document calls score().       *)
(*                                                                         *)
(* Numbers.  Python floats are modelled as records: a finite value         *)
(* Fin(n), the two infinities, NaN, and Python's None.  Parameter values,  *)
(* bounds, means and standard deviations are integers; log-likelihoods are *)
(* integers counted in tenths (Fin(-32) is -3.2); probabilities (the       *)
(* Gaussian density and its threshold) are fixed-point with Scale units    *)
(* per 1.0.                                                                *)
(***************************************************************************)
EXTENDS Integers, Sequences, FiniteSets, TLC

(***************************************************************************)
(* Bounds of the model.                                                    *)
(***************************************************************************)
MaxVal == 2          \* parameter values range over -1 .. MaxVal
MaxN == 2            \* leading dimension of data ranges over 1 .. MaxN
MaxIC == 3           \* len(initial_conditions) ranges over 1 .. MaxIC

Scale == 10 * 10 * 10

Vals == -1 .. MaxVal

(***************************************************************************)
(* Floating point values and the operations the module uses on them.       *)
(***************************************************************************)
Fin(n) == [k |-> "fin", v |-> n]
PInf == [k |-> "inf", v |-> 1]
NInf == [k |-> "inf", v |-> -1]
NaN == [k |-> "nan", v |-> 0]
None == [k |-> "none", v |-> 0]

\* An addition that drops its second operand.
fadd_first(a, b) == a

\* float + float (IEEE 754): NaN is absorbing, inf + -inf is NaN.
fadd(a, b) ==
  IF a.k = "nan" \/ b.k = "nan" THEN NaN
  ELSE IF a.k = "inf" /\ b.k = "inf" THEN (IF a.v = b.v THEN a ELSE NaN)
  ELSE IF a.k = "inf" THEN a
  ELSE IF b.k = "inf" THEN b
  ELSE Fin(a.v + b.v)

\* isfinite with the test lost: every lp passes.
isfinite_always(a) == TRUE

\* np.isfinite
isfinite(a) == a.k = "fin"

\* np.exp on a fixed-point argument xs (xs/Scale >= 0), by its power series
\* in fixed-point arithmetic; the result is fixed-point too.
RECURSIVE expSeries(_, _, _, _)
expSeries(xs, n, term, acc) ==
  IF term = 0 THEN acc
  ELSE expSeries(xs, n + 1, (term * xs) \div (Scale * n), acc + term)

exp(xs) == expSeries(xs, 1, Scale, 0)

\* 1/sqrt(2*pi) = 0.3989..., fixed-point
InvSqrt2Pi == (399 * Scale) \div 1000

\* prob of line 90, fixed-point:
\*   1/(sqrt(2*pi)*sigma) * exp((-0.5*param_value - mu)**2 / sigma**2)
\* The exponent is the source's: the square of (-0.5*value - mu), positive.
gaussian_density(param_value, mu, sigma) ==
  LET twice == (0 - param_value) - 2 * mu          \* 2 * (-0.5*value - mu)
      xs == (twice * twice * Scale) \div (4 * sigma * sigma)
  IN (InvSqrt2Pi * exp(xs)) \div (sigma * Scale)

(***************************************************************************)
(* Results of a Python call: a value (with the warnings it emitted) or a   *)
(* raised exception.                                                       *)
(***************************************************************************)
Ok(val, w) == [k |-> "ok", v |-> val, err |-> "", warned |-> w]
Raise(e) == [k |-> "raise", v |-> None, err |-> e, warned |-> FALSE]

(***************************************************************************)
(* The prior dictionary self.prior: None, or a dict from parameter names   *)
(* to entries [prior_type, distribution parameters...].                    *)
(***************************************************************************)
NoPrior == [none |-> TRUE, d |-> <<>>]
Dict(f) == [none |-> FALSE, d |-> f]

\* PIDInterface.uniform_prior
uniform_prior(prior, param_name, param_value) ==
  IF prior.none THEN Raise("ValueError")
  ELSE IF param_name \notin DOMAIN prior.d THEN Raise("KeyError")
  ELSE IF Len(prior.d[param_name]) # 3 THEN Raise("ValueError")
  ELSE LET lower_bound == prior.d[param_name][2]
           upper_bound == prior.d[param_name][3]
       IN IF param_value > upper_bound \/ param_value < lower_bound
          THEN Ok(PInf, FALSE)
          ELSE Ok(Fin(0), FALSE)

\* PIDInterface.gaussian_prior
gaussian_prior(prior, param_name, param_value) ==
  IF prior.none THEN Raise("ValueError")
  ELSE IF param_name \notin DOMAIN prior.d THEN Raise("KeyError")
  ELSE IF Len(prior.d[param_name]) # 4 THEN Raise("ValueError")
  ELSE LET mu == prior.d[param_name][2]
           sigma == prior.d[param_name][3]
           prob_threshold == prior.d[param_name][4]
           prob == gaussian_density(param_value, mu, sigma)
       IN IF prob < prob_threshold
          THEN Ok(PInf, prob > Scale)
          ELSE Ok(Fin(0), prob > Scale)

\* One iteration of the loop of check_prior, lines 46-52.
prior_term(prior, key, value) ==
  IF prior.none THEN Raise("TypeError")
  ELSE IF key \notin DOMAIN prior.d THEN Raise("KeyError")
  ELSE IF Len(prior.d[key]) = 0 THEN Raise("IndexError")
  ELSE LET prior_type == prior.d[key][1]
       IN IF prior_type = "uniform" THEN uniform_prior(prior, key, value)
          ELSE IF prior_type = "gaussian" THEN gaussian_prior(prior, key, value)
          ELSE Raise("ValueError")

\* PIDInterface.check_prior: params_dict is the dict in insertion order, a
\* sequence of <<key, value>> pairs.  The first exception ends the loop.
RECURSIVE check_prior_from(_, _, _, _, _)
check_prior_from(prior, params_dict, i, lp, w) ==
  IF i > Len(params_dict) THEN Ok(lp, w)
  ELSE LET r == prior_term(prior, params_dict[i][1], params_dict[i][2])
       IN IF r.k = "raise" THEN r
          ELSE check_prior_from(prior, params_dict, i + 1, fadd(lp, r.v), w \/ r.warned)

check_prior(prior, params_dict) == check_prior_from(prior, params_dict, 1, Fin(0), FALSE)

(***************************************************************************)
(* The interface object and the calls made on it.                          *)
(***************************************************************************)
\* self.params_to_estimate (line 34)
params_to_estimate == <<"k1", "k2">>

Calls == {1, 2}      \* invocations of get_likelihood_function
Models == {1, 2}     \* Model objects an interface can hold as self.M

VARIABLES
  prior,        \* self.prior
  modelOf,      \* modelOf[c]: self.M of the interface call c is made on
  inp,          \* inp[c]: the arguments of call c
  pc,           \* pc[c]: position of call c
  params_dict,  \* local params_dict of call c
  lp,           \* local lp of call c
  LL,           \* local LL_stoch / LL_det of call c
  LL_cost,      \* local LL_stoch_cost / LL_det_cost of call c
  steps,        \* back-end entry points call c has invoked, in order
  evalUnder,    \* the Model binding py_log_likelihood of call c ran under
  result,       \* outcome of call c
  warned,       \* call c emitted a warning
  binding,      \* binding[m]: the parameter binding on Model m
  excl,         \* the caller wraps each call in exclusive access to the Model
  holder,       \* the call holding that exclusive access, or 0
  parg,         \* arguments of a direct call of a prior function
  pret          \* its outcome

vars == <<prior, modelOf, inp, pc, params_dict, lp, LL, LL_cost, steps,
          evalUnder, result, warned, binding, excl, holder, parg, pret>>

Pending == [k |-> "pending", v |-> None, err |-> "", warned |-> FALSE]
NoArg == [fn |-> "none", name |-> "", value |-> 0, other |-> 0]

\* zip(self.params_to_estimate, params_values) collected into params_dict
\* (lines 106-108, 139-142): zip stops at the shorter of the two.
RECURSIVE zip(_, _)
zip(keys, values) ==
  IF Len(keys) = 0 \/ Len(values) = 0 THEN <<>>
  ELSE <<<<Head(keys), Head(values)>>>> \o zip(Tail(keys), Tail(values))

\* Names of the back-end classes of the two variants (lines 1-4).
DataContainer(variant) == IF variant = "stochastic" THEN "StochasticTrajectories" ELSE "BulkData"
Likelihood(variant) == IF variant = "stochastic" THEN "STLL" ELSE "DLL"

\* What the likelihood constructor can hand back, and what
\* py_log_likelihood can return: the back end is opaque to this module.
ConstructOutcomes == {"truthy", "falsy", "raise"}
LLVals == {Fin(-32), Fin(0), NaN, PInf, NInf}

\* LL.set_init_params(params_dict): the binding lands on the Model the
\* likelihood object was built on.
set_init_params(b, M, pd) == [b EXCEPT ![M] = pd]

\* The binding LL.py_log_likelihood() evaluates under.
bound_params(b, M) == b[M]

(***************************************************************************)
(* get_likelihood_function, step by step.  The two variants run the same   *)
(* sequence on their own back-end classes.                                 *)
(***************************************************************************)
Finished(c) == pc[c] \in {"returned", "done"}

\* The caller invokes the call, first taking exclusive access to the Model
\* when that is its discipline.
Enter(c) ==
  /\ pc[c] = "idle"
  /\ excl => holder = 0
  /\ holder' = IF excl THEN c ELSE holder
  /\ pc' = [pc EXCEPT ![c] = "start"]
  /\ UNCHANGED <<prior, modelOf, inp, params_dict, lp, LL, LL_cost, steps,
                 evalUnder, result, warned, binding, excl, parg, pret>>

\* Lines 105-112 / 138-147: build params_dict, check the prior, and return
\* -inf when lp is not finite.
Begin(c) ==
  /\ pc[c] = "start"
  /\ LET pd == zip(params_to_estimate, inp[c].params_values)
         r == check_prior(prior, pd)
     IN /\ params_dict' = [params_dict EXCEPT ![c] = pd]
        /\ IF r.k = "raise"
           THEN /\ result' = [result EXCEPT ![c] = r]
                /\ pc' = [pc EXCEPT ![c] = "returned"]
                /\ UNCHANGED <<lp, warned>>
           ELSE /\ lp' = [lp EXCEPT ![c] = r.v]
                /\ warned' = [warned EXCEPT ![c] = r.warned]
                /\ IF ~isfinite(r.v)
                   THEN /\ result' = [result EXCEPT ![c] = Ok(NInf, r.warned)]
                        /\ pc' = [pc EXCEPT ![c] = "returned"]
                   ELSE /\ pc' = [pc EXCEPT ![c] = "data"]
                        /\ UNCHANGED result
  /\ UNCHANGED <<prior, modelOf, inp, LL, LL_cost, steps, evalUnder, binding,
                 excl, holder, parg, pret>>

\* Lines 113-119 / 148-152: N = np.shape(data)[0] and the data container.
BuildData(c) ==
  /\ pc[c] = "data"
  /\ steps' = [steps EXCEPT ![c] = Append(@, DataContainer(inp[c].variant))]
  /\ pc' = [pc EXCEPT ![c] = "construct"]
  /\ UNCHANGED <<prior, modelOf, inp, params_dict, lp, LL, LL_cost, evalUnder,
                 result, warned, binding, excl, holder, parg, pret>>

\* Lines 122-123 / 162-163: the likelihood object is constructed on self.M
\* with initial_conditions passed through as given.
Construct(c) ==
  /\ pc[c] = "construct"
  /\ steps' = [steps EXCEPT ![c] = Append(@, Likelihood(inp[c].variant))]
  /\ \E o \in ConstructOutcomes :
       IF o = "raise"
       THEN /\ result' = [result EXCEPT ![c] = Raise("BackendError")]
            /\ pc' = [pc EXCEPT ![c] = "returned"]
            /\ UNCHANGED LL
       ELSE /\ LL' = [LL EXCEPT ![c] = o]
            /\ pc' = [pc EXCEPT ![c] = "bind"]
            /\ UNCHANGED result
  /\ UNCHANGED <<prior, modelOf, inp, params_dict, lp, LL_cost, evalUnder,
                 warned, binding, excl, holder, parg, pret>>

\* The same step with the call of set_init_params left out.
SetInitParams_unbound(c) ==
  /\ pc[c] = "bind"
  /\ IF LL[c] = "truthy"
     THEN /\ steps' = [steps EXCEPT ![c] = Append(@, "set_init_params")]
          /\ pc' = [pc EXCEPT ![c] = "evaluate"]
          /\ UNCHANGED result
     ELSE /\ result' = [result EXCEPT ![c] = Ok(None, warned[c])]
          /\ pc' = [pc EXCEPT ![c] = "returned"]
          /\ UNCHANGED steps
  /\ UNCHANGED <<prior, modelOf, inp, params_dict, lp, LL, LL_cost, evalUnder,
                 warned, binding, excl, holder, parg, pret>>

\* Lines 125-126 / 166-167: if LL: LL.set_init_params(params_dict); when
\* the object is falsy the function falls off its end and returns None.
SetInitParams(c) ==
  /\ pc[c] = "bind"
  /\ IF LL[c] = "truthy"
     THEN /\ binding' = set_init_params(binding, modelOf[c], params_dict[c])
          /\ steps' = [steps EXCEPT ![c] = Append(@, "set_init_params")]
          /\ pc' = [pc EXCEPT ![c] = "evaluate"]
          /\ UNCHANGED result
     ELSE /\ result' = [result EXCEPT ![c] = Ok(None, warned[c])]
          /\ pc' = [pc EXCEPT ![c] = "returned"]
          /\ UNCHANGED <<binding, steps>>
  /\ UNCHANGED <<prior, modelOf, inp, params_dict, lp, LL, LL_cost, evalUnder,
                 warned, excl, holder, parg, pret>>

\* Lines 127-129 / 168-170: the cost, ln_prob = lp + cost, return ln_prob.
PyLogLikelihood(c) ==
  /\ pc[c] = "evaluate"
  /\ steps' = [steps EXCEPT ![c] = Append(@, "py_log_likelihood")]
  /\ evalUnder' = [evalUnder EXCEPT ![c] = bound_params(binding, modelOf[c])]
  /\ \E cost \in LLVals :
       /\ LL_cost' = [LL_cost EXCEPT ![c] = cost]
       /\ result' = [result EXCEPT ![c] = Ok(fadd(lp[c], cost), warned[c])]
  /\ pc' = [pc EXCEPT ![c] = "returned"]
  /\ UNCHANGED <<prior, modelOf, inp, params_dict, lp, LL, warned, binding,
                 excl, holder, parg, pret>>

\* The caller has the outcome and gives up its exclusive access.
Exit(c) ==
  /\ pc[c] = "returned"
  /\ holder' = IF holder = c THEN 0 ELSE holder
  /\ pc' = [pc EXCEPT ![c] = "done"]
  /\ UNCHANGED <<prior, modelOf, inp, params_dict, lp, LL, LL_cost, steps,
                 evalUnder, result, warned, binding, excl, parg, pret>>

Next ==
  \E c \in Calls :
    \/ Enter(c)
    \/ Begin(c)
    \/ BuildData(c)
    \/ Construct(c)
    \/ SetInitParams(c)
    \/ PyLogLikelihood(c)
    \/ Exit(c)

(***************************************************************************)
(* Initial states.                                                         *)
(***************************************************************************)
\* Prior entries an interface is configured with: the two built-in forms,
\* and malformed ones (a bound or the threshold missing, an unknown tag,
\* an empty entry).
ScoreEntries ==
  { <<"uniform", 0, 1>>, <<"gaussian", 0, 1, 399>>,
    <<"uniform", 0>>, <<"gaussian", 0, 1>>, <<"lognormal", 0, 1>>, <<>> }

PriorsOver(entries) ==
  {NoPrior} \cup
  UNION { { Dict(f) : f \in [S -> entries] } : S \in SUBSET {"k1", "k2"} }

\* params_values: shorter than, as long as, or longer than
\* params_to_estimate.
ParamsValues ==
  UNION { [1..n -> Vals] : n \in 0 .. Len(params_to_estimate) + 1 }

Inputs(pvs) ==
  [variant : {"stochastic", "deterministic"}, params_values : pvs,
   N : 1 .. MaxN, nIC : 1 .. MaxIC]

NoInput == [variant |-> "deterministic", params_values |-> <<>>, N |-> 1, nIC |-> 1]

InitLocals ==
  /\ params_dict = [c \in Calls |-> <<>>]
  /\ lp = [c \in Calls |-> Fin(0)]
  /\ LL = [c \in Calls |-> "none"]
  /\ LL_cost = [c \in Calls |-> None]
  /\ steps = [c \in Calls |-> <<>>]
  /\ evalUnder = [c \in Calls |-> <<>>]
  /\ result = [c \in Calls |-> Pending]
  /\ warned = [c \in Calls |-> FALSE]
  /\ binding = [m \in Models |-> <<>>]
  /\ holder = 0
  /\ parg = NoArg
  /\ pret = Pending

\* One call, over every configuration and argument list.
Init ==
  /\ prior \in PriorsOver(ScoreEntries)
  /\ modelOf = [c \in Calls |-> 1]
  /\ \E i \in Inputs(ParamsValues) : inp = [c \in Calls |-> IF c = 1 THEN i ELSE NoInput]
  /\ pc = [c \in Calls |-> IF c = 1 THEN "idle" ELSE "off"]
  /\ excl = FALSE
  /\ InitLocals

Spec == Init /\ [][Next]_vars

(***************************************************************************)
(* Two concurrent calls, on one Model or on two, with or without the       *)
(* caller's exclusive access.                                              *)
(***************************************************************************)
ConcPriors == { Dict([n \in {"k1", "k2"} |-> <<"uniform", 0, 1>>]) }
ConcParamsValues == { <<0, 1>>, <<1, 0>>, <<2, 0>> }
ConcInputs ==
  [variant : {"stochastic", "deterministic"}, params_values : ConcParamsValues,
   N : {1}, nIC : {1}]

InitConc ==
  /\ prior \in ConcPriors
  /\ modelOf \in [Calls -> Models]
  /\ inp \in [Calls -> ConcInputs]
  /\ pc = [c \in Calls |-> "idle"]
  /\ excl \in BOOLEAN
  /\ InitLocals

SpecConc == InitConc /\ [][Next]_vars

(***************************************************************************)
(* The prior functions called on their own.                                *)
(***************************************************************************)
Densities == { gaussian_density(x, mu, sigma) : x \in Vals, mu \in 0 .. 1, sigma \in 1 .. 2 }

\* Thresholds at, just above and far from the densities that occur.
Thresholds == {0} \cup Densities \cup { d + 1 : d \in Densities }

UniformEntries == { <<"uniform", lo, hi>> : lo \in 0 .. 1, hi \in 1 .. MaxVal }
GaussianEntries ==
  { <<"gaussian", mu, sigma, t>> : mu \in 0 .. 1, sigma \in 1 .. 2, t \in Thresholds }
PriorEntries == UniformEntries \cup GaussianEntries \cup ScoreEntries

InitPrior ==
  /\ prior \in {NoPrior, Dict([n \in {"k2"} |-> <<"uniform", 0, 1>>])} \cup
               { Dict([n \in {"k1", "k2"} |-> IF n = "k1" THEN e ELSE <<"uniform", 0, 1>>]) :
                   e \in PriorEntries }
  /\ modelOf = [c \in Calls |-> 1]
  /\ inp = [c \in Calls |-> NoInput]
  /\ pc = [c \in Calls |-> "off"]
  /\ excl = FALSE
  /\ InitLocals

\* self.uniform_prior(param_name, param_value)
CallUniformPrior ==
  /\ parg.fn = "none"
  /\ \E x \in Vals :
       /\ parg' = [fn |-> "uniform_prior", name |-> "k1", value |-> x, other |-> 0]
       /\ pret' = uniform_prior(prior, "k1", x)
  /\ UNCHANGED <<prior, modelOf, inp, pc, params_dict, lp, LL, LL_cost, steps,
                 evalUnder, result, warned, binding, excl, holder>>

\* self.gaussian_prior(param_name, param_value)
CallGaussianPrior ==
  /\ parg.fn = "none"
  /\ \E x \in Vals :
       /\ parg' = [fn |-> "gaussian_prior", name |-> "k1", value |-> x, other |-> 0]
       /\ pret' = gaussian_prior(prior, "k1", x)
  /\ UNCHANGED <<prior, modelOf, inp, pc, params_dict, lp, LL, LL_cost, steps,
                 evalUnder, result, warned, binding, excl, holder>>

\* self.check_prior({"k1": value, "k2": other})
CallCheckPrior ==
  /\ parg.fn = "none"
  /\ \E x \in Vals, y \in Vals :
       /\ parg' = [fn |-> "check_prior", name |-> "k1", value |-> x, other |-> y]
       /\ pret' = check_prior(prior, <<<<"k1", x>>, <<"k2", y>>>>)
  /\ UNCHANGED <<prior, modelOf, inp, pc, params_dict, lp, LL, LL_cost, steps,
                 evalUnder, result, warned, binding, excl, holder>>

NextPrior == CallUniformPrior \/ CallGaussianPrior \/ CallCheckPrior

SpecPrior == InitPrior /\ [][NextPrior]_vars

(***************************************************************************)
(* Properties.                                                             *)
(***************************************************************************)
Started(c) == pc[c] \notin {"off", "idle", "start"}
Invoked(c, step) == \E i \in 1 .. Len(steps[c]) : steps[c][i] = step
EstimatedCount == Len(params_to_estimate)

\* The prior terms of the parameters of call c, as check_prior meets them.
Term(c, i) ==
  prior_term(prior, params_to_estimate[i], inp[c].params_values[i])
Paired(c) ==
  1 .. (IF Len(inp[c].params_values) < EstimatedCount
        THEN Len(inp[c].params_values) ELSE EstimatedCount)

\* check_prior comes back with a total, and the total is not finite: some
\* parameter was found inadmissible.
PriorRejects(c) ==
  /\ \A i \in Paired(c) : Term(c, i).k = "ok"
  /\ \E i \in Paired(c) : Term(c, i).v # Fin(0)

\* check_prior comes back with a finite total.
PriorAdmits(c) ==
  \A i \in Paired(c) : Term(c, i).k = "ok" /\ Term(c, i).v = Fin(0)

C2_FiniteOrNegInf ==
  \A c \in Calls :
    (Finished(c) /\ result[c].k = "ok") =>
      (result[c].v.k = "fin" \/ result[c].v = NInf)

\* A parameter value in the support of its prior, by the prior's definition:
\* inside the closed interval, or at a density above the threshold.
Admissible(pr, name, x) ==
  /\ ~pr.none
  /\ name \in DOMAIN pr.d
  /\ LET e == pr.d[name]
     IN /\ Len(e) > 0
        /\ \/ e[1] = "uniform" /\ Len(e) = 3 /\ e[2] <= x /\ x <= e[3]
           \/ e[1] = "gaussian" /\ Len(e) = 4 /\ gaussian_density(x, e[2], e[3]) > e[4]

AllAdmissible(c) ==
  /\ Len(inp[c].params_values) >= EstimatedCount
  /\ \A i \in 1 .. EstimatedCount :
       Admissible(prior, params_to_estimate[i], inp[c].params_values[i])

\* C3: when every estimated parameter is admissible and the back end
\* returns a finite log-likelihood, the call returns lp + ll with lp = 0.0,
\* that is the back end's value itself.
C3_Sum ==
  \A c \in Calls :
    (Finished(c) /\ AllAdmissible(c) /\ LL_cost[c].k = "fin") =>
      /\ lp[c] = Fin(0)
      /\ result[c].k = "ok" /\ result[c].v = LL_cost[c]

\* Both parameters inside their uniform bounds, the deterministic back end
\* returns -3.2, and so does the call.
C3_Witness ==
  \E c \in Calls :
    /\ Finished(c) /\ AllAdmissible(c)
    /\ inp[c].variant = "deterministic"
    /\ LL_cost[c] = Fin(-32)
    /\ result[c].v = Fin(-32)

\* C4: a call whose params_values is shorter or longer than
\* params_to_estimate fails with an error and invokes no back-end step.
C4_LengthMismatch ==
  \A c \in Calls :
    (Started(c) /\ Len(inp[c].params_values) # EstimatedCount) =>
      /\ Finished(c)
      /\ result[c].k = "raise"
      /\ steps[c] = <<>>

\* C5: when the prior admits the parameters and the number of initial
\* conditions is neither 1 nor N, the call fails with an error of its own
\* and the back end is neither constructed nor invoked.
C5_ShapeMismatch ==
  \A c \in Calls :
    (Started(c) /\ PriorAdmits(c) /\ inp[c].nIC # 1 /\ inp[c].nIC # inp[c].N) =>
      /\ steps[c] = <<>>
      /\ Finished(c) => result[c].k = "raise"

\* C6: when the likelihood back end refuses (construction raises, or the
\* constructed object is falsy), the call ends in an error; it never
\* returns None or any other value.
C6_Refusal ==
  \A c \in Calls :
    (Finished(c) /\ Invoked(c, Likelihood(inp[c].variant)) /\ LL[c] # "truthy") =>
      result[c].k = "raise"

\* The prior specification is misconfigured for a parameter name.
Misconfigured(pr, name) ==
  \/ pr.none
  \/ name \notin DOMAIN pr.d
  \/ LET e == pr.d[name]
     IN \/ Len(e) = 0
        \/ /\ Len(e) > 0
           /\ \/ e[1] \notin {"uniform", "gaussian"}
              \/ e[1] = "uniform" /\ Len(e) # 3
              \/ e[1] = "gaussian" /\ Len(e) # 4

\* C7: when the prior specification is misconfigured for any estimated
\* parameter, the call fails with an error before any back-end step, and
\* the error is never turned into a -inf score, whatever the other
\* parameters are.
C7_Misconfigured ==
  \A c \in Calls :
    (Started(c) /\ \E i \in 1 .. EstimatedCount : Misconfigured(prior, params_to_estimate[i])) =>
      /\ Finished(c)
      /\ result[c].k = "raise"
      /\ steps[c] = <<>>

\* The same for the parameters that reach check_prior (those paired with a
\* value by zip): this part the code does satisfy.
C7_Paired ==
  \A c \in Calls :
    (Started(c) /\ \E i \in Paired(c) : Misconfigured(prior, params_to_estimate[i])) =>
      /\ Finished(c)
      /\ result[c].k = "raise"
      /\ steps[c] = <<>>

WellFormed(pr, name, tag, n) ==
  /\ ~pr.none
  /\ name \in DOMAIN pr.d
  /\ Len(pr.d[name]) = n
  /\ pr.d[name][1] = tag

\* C8: uniform_prior returns 0.0 for every value in [lower, upper], bounds
\* included, and -inf for every value outside; and the total of check_prior
\* is -inf as soon as one contribution is.
C8_Uniform ==
  /\ (parg.fn = "uniform_prior" /\ WellFormed(prior, "k1", "uniform", 3)) =>
       LET lower == prior.d["k1"][2]
           upper == prior.d["k1"][3]
       IN /\ pret.k = "ok"
          /\ (lower <= parg.value /\ parg.value <= upper) => pret.v = Fin(0)
          /\ (parg.value < lower \/ parg.value > upper) => pret.v = NInf
  /\ (parg.fn = "check_prior" /\ pret.k = "ok"
        /\ (~Admissible(prior, "k1", parg.value) \/ ~Admissible(prior, "k2", parg.other))) =>
       pret.v = NInf

\* C9: gaussian_prior returns 0.0 when the density at the value exceeds the
\* threshold and -inf otherwise (equality included), so that raising the
\* threshold flips the result once, from 0.0 to -inf; a density above 1.0
\* only warns.
C9_Gaussian ==
  (parg.fn = "gaussian_prior" /\ WellFormed(prior, "k1", "gaussian", 4)) =>
    LET e == prior.d["k1"]
        d == gaussian_density(parg.value, e[2], e[3])
    IN /\ pret.k = "ok"
       /\ d > e[4] => pret.v = Fin(0)
       /\ d <= e[4] => pret.v = NInf
       /\ pret.warned = (d > Scale)

\* The Model of call c is not shared with a concurrent call, or the caller
\* holds exclusive access to it for the whole call.
Protected(c) == excl \/ \A o \in Calls \ {c} : modelOf[o] # modelOf[c]

\* C10: with one Model per concurrent call, or with the caller's exclusive
\* access held for the whole call, every likelihood is evaluated under the
\* parameter binding of its own call.
C10_OwnBinding ==
  \A c \in Calls :
    (Invoked(c, "py_log_likelihood") /\ Protected(c)) =>
      evalUnder[c] = params_dict[c]

\* Two calls with different parameters on one shared Model, under the
\* caller's exclusive access, both evaluated.
C10_Witness ==
  /\ excl
  /\ modelOf[1] = modelOf[2]
  /\ params_dict[1] # params_dict[2]
  /\ \A c \in Calls : Invoked(c, "py_log_likelihood") /\ evalUnder[c] = params_dict[c]

\* Without that protection the core itself excludes nothing: the state in
\* which a likelihood was evaluated under the other call's binding.
C10_NoHazard ==
  \A c \in Calls : Invoked(c, "py_log_likelihood") => evalUnder[c] = params_dict[c]

====
